---- MODULE Spec2Model ----
(***************************************************************************)
(* Model of src/app.py: the fault-code lookup form.                        *)
(*                                                                         *)
(* Text is modelled as a sequence of one-character strings, so that        *)
(* strip(), upper(), isdigit() and the regular expression \bF\d+\b are     *)
(* computed character by character as the code computes them.              *)
(* Python's None is the one-element sequence <<"None">>, which no text     *)
(* equals because every element of a text is a single character.           *)
(***************************************************************************)
EXTENDS Integers, Sequences, FiniteSets, TLC

VARIABLES
    FAULTS,     \* module global FAULTS (line 349): equipment -> code -> entry
    ss,         \* st.session_state: a function from the keys present to values
    pc,         \* "idle": the page waits for the user; "rerun": safe_rerun() was called
    shown,      \* what the last complete script run rendered
    last,       \* the last user event and, for Search, what the handler decided
    hPrim,      \* history: the most recent search that found a primary record
    hAlts,      \* history: the alternates of the most recent search that opened the dialog
    hChosen,    \* history: the record taken with 'Yes, show it' since that search
    inp,        \* pipeline: the text handed to normalize_user_input_code
    psel,       \* pipeline: the selected equipment
    pcode,      \* pipeline: normalize_user_input_code(inp)
    pcode2,     \* pipeline: normalize_user_input_code(pcode)
    pfound,     \* pipeline: find_fault(FAULTS, psel, pcode)
    ppc         \* pipeline: position

vars == <<FAULTS, ss, pc, shown, last, hPrim, hAlts, hChosen,
          inp, psel, pcode, pcode2, pfound, ppc>>
sessionVars == <<ss, pc, shown, last, hPrim, hAlts, hChosen>>
pipeVars == <<inp, psel, pcode, pcode2, pfound, ppc>>

----------------------------------------------------------------------------
(* Bounds *)
MaxLen == 4
MaxDigits == 2
MaxGap == 3

----------------------------------------------------------------------------
(* Characters *)
None == <<"None">>

LowerLetters == <<"a","b","c","d","e","f","g","h","i","j","k","l","m",
                  "n","o","p","q","r","s","t","u","v","w","x","y","z">>
UpperLetters == <<"A","B","C","D","E","F","G","H","I","J","K","L","M",
                  "N","O","P","Q","R","S","T","U","V","W","X","Y","Z">>
DigitSet == {"0","1","2","3","4","5","6","7","8","9"}

IsSpace(c) == c \in {" ", "\t", "\n"}
IsDigit(c) == c \in DigitSet
IsLetter(c) == c \in {LowerLetters[i] : i \in 1..26} \cup {UpperLetters[i] : i \in 1..26}
IsWord(c) == IsLetter(c) \/ IsDigit(c) \/ c = "_"

LowerSet == {LowerLetters[i] : i \in 1..26}
UpperSet == {UpperLetters[i] : i \in 1..26}
UpperOf == [c \in LowerSet |-> UpperLetters[CHOOSE i \in 1..26 : LowerLetters[i] = c]]
LowerOf == [c \in UpperSet |-> LowerLetters[CHOOSE i \in 1..26 : UpperLetters[i] = c]]

UpperChar(c) == IF c \in LowerSet THEN UpperOf[c] ELSE c
LowerChar(c) == IF c \in UpperSet THEN LowerOf[c] ELSE c

\* Faulty variant of str.upper(): the text is left in the case it was typed in.
UpperStrTyped(s) == s

\* str.upper()
UpperStr(s) == [i \in 1..Len(s) |-> UpperChar(s[i])]

\* str.strip(): leading and trailing whitespace removed
Strip(s) ==
    LET keep == {i \in 1..Len(s) : ~IsSpace(s[i])}
    IN  IF keep = {} THEN <<>>
        ELSE LET lo == CHOOSE i \in keep : \A j \in keep : i <= j
                 hi == CHOOSE i \in keep : \A j \in keep : j <= i
             IN  SubSeq(s, lo, hi)

\* str.isdigit(): non-empty and every character a digit
IsDigitStr(s) == s # <<>> /\ \A i \in 1..Len(s) : IsDigit(s[i])

\* str.startswith(p)
StartsWith(s, p) == Len(p) <= Len(s) /\ SubSeq(s, 1, Len(p)) = p

\* Python truthiness of an Optional[str]
Truthy(s) == s # None /\ s # <<>>

----------------------------------------------------------------------------
(* parse_to_code_only and normalize_user_input_code *)

\* the last index of the run of digits that starts at j (u[j] is a digit)
DigitRunEnd(u, j) ==
    CHOOSE k \in j..Len(u) :
        /\ \A m \in j..k : IsDigit(u[m])
        /\ (k = Len(u) \/ ~IsDigit(u[k + 1]))

\* Faulty variant of the pattern: F\d+\b, without the leading word boundary.
MatchAtNoLeadingBoundary(u, i) ==
    /\ u[i] = "F"
    /\ i < Len(u) /\ IsDigit(u[i + 1])
    /\ LET e == DigitRunEnd(u, i + 1)
       IN  e = Len(u) \/ ~IsWord(u[e + 1])

\* \bF\d+\b matches at index i of u
MatchAt(u, i) ==
    /\ u[i] = "F"
    /\ (i = 1 \/ ~IsWord(u[i - 1]))
    /\ i < Len(u) /\ IsDigit(u[i + 1])
    /\ LET e == DigitRunEnd(u, i + 1)
       IN  e = Len(u) \/ ~IsWord(u[e + 1])

parse_to_code_only(text) ==
    IF ~Truthy(text) THEN None
    ELSE LET u == UpperStr(text)
             m == {i \in 1..Len(u) : MatchAt(u, i)}
         IN  IF m = {} THEN None
             ELSE LET i == CHOOSE x \in m : \A y \in m : y <= x
                  IN  SubSeq(u, i, DigitRunEnd(u, i + 1))

normalize_user_input_code(s0) ==
    IF ~Truthy(s0) THEN None
    ELSE LET s == UpperStr(Strip(s0))
             code == parse_to_code_only(s)
         IN  IF Truthy(code) THEN code
             ELSE IF IsDigitStr(s) THEN <<"F">> \o s
             ELSE s

----------------------------------------------------------------------------
(* Data sources / constants *)
UI_EQUIPMENTS == <<"AFE", "DC-DC", "Grid">>
EquipSet == {UI_EQUIPMENTS[i] : i \in 1..Len(UI_EQUIPMENTS)}

AFE_ == <<"A","F","E">>
DCDC_ == <<"D","C","-","D","C">>
Grid_ == <<"G","r","i","d">>
Inverter_ == <<" ","I","n","v","e","r","t","e","r">>
Converter_ == <<" ","C","o","n","v","e","r","t","e","r">>

\* EQUIP_NAME_MAP.get(name): the UI label, or "" (None) for an unknown name
EQUIP_NAME_MAP(name) ==
    IF name = AFE_ \o Inverter_ THEN "AFE"
    ELSE IF name = DCDC_ \o Converter_ THEN "DC-DC"
    ELSE IF name = Grid_ \o Inverter_ THEN "Grid"
    ELSE ""

\* dict assignment d[k] = v
Put(d, k, v) == [x \in DOMAIN d \cup {k} |-> IF x = k THEN v ELSE d[x]]
\* del d[k]
Del(d, k) == [x \in DOMAIN d \ {k} |-> d[x]]

EmptyTable == [c \in {} |-> <<>>]
EmptyFaults == [e \in EquipSet |-> EmptyTable]

\* One iteration of the loop of parse_rows_to_faults: row r applied to faults.
\* A row is a record; a key the JSON row lacks holds the empty text.
\* Description, Possible_Causes and Recommended_Fixes are opaque tokens.
ApplyRow(faults, r) ==
    LET inv_name == Strip(r.Inverter_Name)
        full1 == Strip(r.Fault_Code)
        full2 == Strip(r.Fault_Code_Orig)
    IN  IF inv_name # <<>> /\ full1 # <<>>
        THEN LET ui_equip == EQUIP_NAME_MAP(inv_name)
                 code == parse_to_code_only(full1)
             IN  IF ~(ui_equip # "" /\ Truthy(code)) THEN faults
                 ELSE [faults EXCEPT ![ui_equip] = Put(@, code,
                        [equipment |-> ui_equip, code |-> code,
                         fault_code_full |-> full1,
                         description |-> r.Description,
                         causes |-> r.Possible_Causes,
                         fixes |-> r.Recommended_Fixes])]
        ELSE IF full2 # <<>>
        THEN LET code == parse_to_code_only(full2)
                 ui_equip == IF StartsWith(full2, AFE_) THEN "AFE"
                             ELSE IF StartsWith(full2, DCDC_) THEN "DC-DC"
                             ELSE IF StartsWith(full2, Grid_ \o Inverter_) THEN "Grid"
                             ELSE ""
             IN  IF ~Truthy(code) \/ ui_equip = "" THEN faults
                 ELSE [faults EXCEPT ![ui_equip] = Put(@, code,
                        [equipment |-> ui_equip, code |-> code,
                         fault_code_full |-> full2,
                         description |-> r.Description,
                         causes |-> "", fixes |-> ""])]
        ELSE faults

RECURSIVE ParseFrom(_, _)
ParseFrom(faults, rows) ==
    IF rows = <<>> THEN faults
    ELSE ParseFrom(ApplyRow(faults, Head(rows)), Tail(rows))

parse_rows_to_faults(rows) == ParseFrom(EmptyFaults, rows)

\* Faulty variant of find_fault: the other equipment is scanned even on a hit.
find_fault_always_scan(faults, selected_equip, code) ==
    LET table == faults[selected_equip]
        primary == IF code \in DOMAIN table THEN <<table[code]>> ELSE <<>>
        others == SelectSeq(UI_EQUIPMENTS,
                    LAMBDA e : e # selected_equip /\ code \in DOMAIN faults[e])
    IN  [primary |-> primary,
         alts |-> [i \in 1..Len(others) |-> faults[others[i]][code]]]

\* find_fault: primary is <<>> (None) or <<entry>>; alts is the list built by
\* the loop over faults.items(), which iterates in insertion order (line 252).
find_fault(faults, selected_equip, code) ==
    LET table == faults[selected_equip]
        primary == IF code \in DOMAIN table THEN <<table[code]>> ELSE <<>>
        others == SelectSeq(UI_EQUIPMENTS,
                    LAMBDA e : e # selected_equip /\ code \in DOMAIN faults[e])
    IN  [primary |-> primary,
         alts |-> IF primary = <<>>
                  THEN [i \in 1..Len(others) |-> faults[others[i]][code]]
                  ELSE <<>>]

----------------------------------------------------------------------------
(* The data sets the program is started with *)
F_(digits) == <<" ", "F">> \o digits

FRow(name, full, d) ==
    [Inverter_Name |-> name, Fault_Code |-> full, Fault_Code_Orig |-> <<>>,
     Description |-> d, Possible_Causes |-> "causes", Recommended_Fixes |-> "fixes"]
ORow(full, d) ==
    [Inverter_Name |-> <<>>, Fault_Code |-> <<>>, Fault_Code_Orig |-> full,
     Description |-> d, Possible_Causes |-> "", Recommended_Fixes |-> ""]

\* formatted schema: F9 in all three, F99 in DC-DC and Grid, F91 in Grid only;
\* one row of an unknown inverter, one without a code, one overwritten
FormattedRows ==
    << FRow(AFE_ \o Inverter_, AFE_ \o F_(<<"9">>), "afe9-old"),
       FRow(AFE_ \o Inverter_, AFE_ \o F_(<<"9">>) \o <<" ">>, "afe9"),
       FRow(DCDC_ \o Converter_, DCDC_ \o F_(<<"9">>), "dc9"),
       FRow(Grid_ \o Inverter_, Grid_ \o F_(<<"9">>), "grid9"),
       FRow(DCDC_ \o Converter_, DCDC_ \o F_(<<"9","9">>), "dc99"),
       FRow(Grid_ \o Inverter_, Grid_ \o F_(<<"9","9">>), "grid99"),
       FRow(Grid_ \o Inverter_, Grid_ \o F_(<<"9","1">>), "grid91"),
       FRow(<<"X">> \o Inverter_, <<"X">> \o F_(<<"9","1">>), "x91"),
       FRow(AFE_ \o Inverter_, AFE_ \o <<" ","F">>, "nocode") >>

\* original schema: the equipment is read from the start of "Fault Code";
\* "Grid F99" does not start with "Grid Inverter" and is dropped
OriginalRows ==
    << ORow(AFE_ \o F_(<<"9","9">>), "o-afe99"),
       ORow(DCDC_ \o F_(<<"9">>), "o-dc9"),
       ORow(Grid_ \o Inverter_ \o F_(<<"9">>), "o-grid9"),
       ORow(Grid_ \o F_(<<"9","9">>), "o-grid99"),
       ORow(AFE_ \o F_(<<"9","1">>), "o-afe91") >>

\* a file without rows loads as three empty tables, which `if FAULTS:` (line 368)
\* accepts; the case FAULTS is None, where no form is drawn, has no behaviour
NoRows == <<>>

DataSets == {FormattedRows, OriginalRows, NoRows}

----------------------------------------------------------------------------
(* st.session_state.  A key is the sequence of its tokens, so that          *)
(* k.startswith("fc_") is computed from the key: the form's submit button   *)
(* is kept by Streamlit under "FormSubmitter:fc_form-Search", which holds   *)
(* "fc_" but does not start with it.                                        *)
K_equipment == <<"fc_", "equipment">>
K_code_raw == <<"fc_", "code_raw">>
K_result == <<"fc_", "result">>
K_show_modal == <<"fc_", "show_modal">>
K_alt_matches == <<"fc_", "alt_matches">>
K_alt_prompt == <<"fc_", "alt_prompt">>
K_submit == <<"FormSubmitter:", "fc_", "form-Search">>

KeyStartsWithFc(k) == k[1] = "fc_"
KeyContainsFc(k) == \E i \in 1..Len(k) : k[i] = "fc_"

\* Faulty variant of reset_state: every key that holds "fc_" anywhere is deleted.
reset_state_contains(s) ==
    [k \in {x \in DOMAIN s : ~KeyContainsFc(x)} |-> s[k]]

\* reset_state
reset_state(s) ==
    [k \in {x \in DOMAIN s : ~KeyStartsWithFc(x)} |-> s[k]]

\* The widgets of the form, lines 369-375: a keyed widget whose key is not in
\* the session state is created with its default value; the submit button's
\* entry holds whether this run was started by it.
RenderWidgets(s, submitted) ==
    LET s1 == IF K_equipment \in DOMAIN s THEN s
              ELSE Put(s, K_equipment, UI_EQUIPMENTS[1])
        s2 == IF K_code_raw \in DOMAIN s1 THEN s1 ELSE Put(s1, K_code_raw, <<>>)
    IN  Put(s2, K_submit, submitted)

\* Faulty variant of lines 384-385: the dialog flag is not lowered.
OnPrimaryKeepsModal(s, primary) == Put(s, K_result, primary)

\* lines 384-385
OnPrimary(s, primary) == Put(Put(s, K_result, primary), K_show_modal, FALSE)

\* the text of fc_alt_prompt, lines 388-391: its three varying parts
AltPrompt(code, selected, alts) ==
    [code |-> code, selected |-> selected,
     equipments |-> {alts[i].equipment : i \in 1..Len(alts)}]

\* Faulty variant of lines 387-394: an earlier result is left in place.
OnAltsKeepsResult(s, alts, code, selected) ==
    Put(Put(Put(s, K_alt_matches, alts),
            K_alt_prompt, AltPrompt(code, selected, alts)),
        K_show_modal, TRUE)

\* lines 387-394
OnAlts(s, alts, code, selected) ==
    LET s3 == Put(Put(Put(s, K_alt_matches, alts),
                      K_alt_prompt, AltPrompt(code, selected, alts)),
                  K_show_modal, TRUE)
    IN  IF K_result \in DOMAIN s3 THEN Del(s3, K_result) ELSE s3

\* Faulty variant of line 396: nothing is reset when nothing is found.
OnNothingKeepsState(s) == s

\* line 396
OnNothing(s) == reset_state(s)

\* The submit handler, lines 377-397, on session state s (the widgets already
\* hold selected and user_code_raw).  kind names the branch taken.
SubmitHandler(s, selected, user_code_raw) ==
    LET code == normalize_user_input_code(user_code_raw)
    IN  IF ~Truthy(code)
        THEN [ss |-> s, kind |-> "empty", code |-> code, error |-> TRUE,
              warning |-> FALSE, looked |-> FALSE, primary |-> <<>>, alts |-> <<>>]
        ELSE LET f == find_fault(FAULTS, selected, code)
             IN  IF f.primary # <<>>
                 THEN [ss |-> OnPrimary(s, f.primary[1]), kind |-> "primary",
                       code |-> code, error |-> FALSE, warning |-> FALSE,
                       looked |-> TRUE, primary |-> f.primary, alts |-> f.alts]
                 ELSE IF f.alts # <<>>
                 THEN [ss |-> OnAlts(s, f.alts, code, selected), kind |-> "alts",
                       code |-> code, error |-> FALSE, warning |-> FALSE,
                       looked |-> TRUE, primary |-> f.primary, alts |-> f.alts]
                 ELSE [ss |-> OnNothing(s), kind |-> "nothing",
                       code |-> code, error |-> FALSE, warning |-> TRUE,
                       looked |-> TRUE, primary |-> f.primary, alts |-> f.alts]

\* line 400: st.session_state.get("fc_show_modal")
ModalShown(s) == K_show_modal \in DOMAIN s /\ s[K_show_modal] = TRUE
\* line 403: st.session_state.get("fc_alt_matches", [])
Options(s) == IF K_alt_matches \in DOMAIN s THEN s[K_alt_matches] ELSE <<>>
\* line 404: the label of an option
Label(e) == <<e.equipment, e.fault_code_full>>
LabelSet(options) == {Label(options[i]) : i \in 1..Len(options)}
\* line 404: label_map[label]; a later option with the same label wins
LabelIndex(options, label) ==
    CHOOSE i \in 1..Len(options) :
        /\ Label(options[i]) = label
        /\ \A j \in 1..Len(options) : Label(options[j]) = label => j <= i
\* lines 419-420: the record show_result renders, <<>> when there is none
ResultShown(s) == IF K_result \in DOMAIN s THEN <<s[K_result]>> ELSE <<>>

\* what a script run that reaches its end has rendered
Rendered(s, error, warning, looked) ==
    [error |-> error, warning |-> warning, looked |-> looked,
     modal |-> ModalShown(s), result |-> ResultShown(s), suggestions |-> {}]

----------------------------------------------------------------------------
(* Inputs *)
Alphabet == {"F", "f", "A", "9", " ", "-"}
DigitChars == {"9", "1"}

\* every text of at most MaxLen characters of Alphabet
Texts == UNION {[1..n -> Alphabet] : n \in 0..MaxLen}
\* every fault number of at most MaxDigits digits
Numbers == UNION {[1..n -> DigitChars] : n \in 1..MaxDigits}
Spaces(n) == [i \in 1..n |-> " "]

\* the spellings of fault number n, line 202 and line 425
Spellings(n) ==
    { <<"F">> \o n, <<"f">> \o n, <<" ", " ", "f", " ">> \o n, n }

\* an equipment prefix, a gap of g blanks, and the fault number
Prefixes == {AFE_, DCDC_, Grid_, <<"a","f","e">>}
Prefixed(p, g, n) == p \o Spaces(g) \o <<"F">> \o n

PrefixedInputs ==
    {Prefixed(p, g, n) : p \in Prefixes, g \in 0..MaxGap, n \in Numbers}

\* two fault codes in one text: the pattern matches twice, m[-1] is the second
TwoCodes ==
    {<<"F">> \o n \o <<sep>> \o <<"f">> \o m :
        n \in Numbers, m \in Numbers, sep \in {" ", "-"}}

PipelineInputs ==
    Texts \cup UNION {Spellings(n) : n \in Numbers} \cup PrefixedInputs \cup TwoCodes

\* what the user types into the form in the session model
SearchInputs ==
    { <<>>, <<" ", " ">>,
      <<"F","9">>, <<"f","9","9">>, <<"9","1">>,
      <<"F","9","8">>, AFE_, AFE_ \o <<"F","9">>, AFE_ \o <<" ","F","9","9">> }

----------------------------------------------------------------------------
(* The session: one action per script run *)
NoSearch == [event |-> "load", kind |-> "", selected |-> "", code |-> None]

SessionInit ==
    /\ ss = RenderWidgets([k \in {} |-> FALSE], FALSE)
    /\ pc = "idle"
    /\ shown = Rendered(ss, FALSE, FALSE, FALSE)
    /\ last = NoSearch
    /\ hPrim = <<>>
    /\ hAlts = <<>>
    /\ hChosen = <<>>

PipeIdle ==
    /\ inp = None /\ psel = "" /\ pcode = None /\ pcode2 = None
    /\ pfound = [primary |-> <<>>, alts |-> <<>>]
    /\ ppc = "off"

Init ==
    /\ FAULTS \in {parse_rows_to_faults(rows) : rows \in DataSets}
    /\ SessionInit
    /\ PipeIdle

\* The user submits the form: the run of lines 369-425 with submitted = True.
Search(selected, user_code_raw) ==
    /\ pc = "idle"
    /\ \E h \in {SubmitHandler(
                    RenderWidgets(Put(Put(ss, K_equipment, selected),
                                      K_code_raw, user_code_raw), TRUE),
                    selected, user_code_raw)} :
           /\ ss' = h.ss
           /\ shown' = Rendered(h.ss, h.error, h.warning, h.looked)
           /\ last' = [event |-> "Search", kind |-> h.kind,
                       selected |-> selected, code |-> h.code]
           /\ hPrim' = IF h.kind = "primary"
                       THEN <<[selected |-> selected, code |-> h.code,
                               rec |-> h.primary[1]]>>
                       ELSE hPrim
           /\ hAlts' = IF h.kind = "alts" THEN h.alts ELSE hAlts
           /\ hChosen' = IF h.kind = "alts" THEN <<>> ELSE hChosen
    /\ pc' = "idle"
    /\ UNCHANGED <<FAULTS, pipeVars>>

\* 'Yes, show it', lines 408-412, with the radio on `label`.
YesShowIt(label) ==
    /\ pc = "idle"
    /\ ModalShown(ss)
    /\ label \in LabelSet(Options(ss))
    /\ LET s == RenderWidgets(ss, FALSE)
           options == Options(s)
           idx == LabelIndex(options, label)
       IN  /\ ss' = Put(Put(s, K_result, options[idx]), K_show_modal, FALSE)
           /\ hChosen' = <<options[idx]>>
    /\ last' = [last EXCEPT !.event = "Yes"]
    /\ pc' = "rerun"
    /\ UNCHANGED <<FAULTS, shown, hPrim, hAlts, pipeVars>>

\* Cancel, lines 414-416.
Cancel ==
    /\ pc = "idle"
    /\ ModalShown(ss)
    /\ ss' = reset_state(RenderWidgets(ss, FALSE))
    /\ last' = [last EXCEPT !.event = "Cancel"]
    /\ pc' = "rerun"
    /\ UNCHANGED <<FAULTS, shown, hPrim, hAlts, hChosen, pipeVars>>

\* Clear, lines 422-424: the button exists while a result is stored.
Clear ==
    /\ pc = "idle"
    /\ K_result \in DOMAIN ss
    /\ ss' = reset_state(RenderWidgets(ss, FALSE))
    /\ last' = [last EXCEPT !.event = "Clear"]
    /\ pc' = "rerun"
    /\ UNCHANGED <<FAULTS, shown, hPrim, hAlts, hChosen, pipeVars>>

\* The run that safe_rerun() starts: the script from the top, no button pressed.
Rerun ==
    /\ pc = "rerun"
    /\ ss' = RenderWidgets(ss, FALSE)
    /\ shown' = Rendered(ss', FALSE, FALSE, FALSE)
    /\ pc' = "idle"
    /\ UNCHANGED <<FAULTS, last, hPrim, hAlts, hChosen, pipeVars>>

Next ==
    \/ \E selected \in EquipSet, raw \in SearchInputs : Search(selected, raw)
    \/ \E label \in LabelSet(Options(ss)) : YesShowIt(label)
    \/ Cancel
    \/ Clear
    \/ Rerun

Spec == Init /\ [][Next]_vars

----------------------------------------------------------------------------
(* The lookup pipeline as a function of its input: normalize, normalize the *)
(* result again, then find_fault for a selected equipment.                  *)
PipeInit ==
    /\ FAULTS \in {parse_rows_to_faults(rows) : rows \in DataSets}
    /\ SessionInit
    /\ inp \in PipelineInputs
    /\ psel = "" /\ pcode = None /\ pcode2 = None
    /\ pfound = [primary |-> <<>>, alts |-> <<>>]
    /\ ppc = "start"

PNormalize ==
    /\ ppc = "start"
    /\ pcode' = normalize_user_input_code(inp)
    /\ ppc' = "normalized"
    /\ UNCHANGED <<FAULTS, sessionVars, inp, psel, pcode2, pfound>>

PRenormalize ==
    /\ ppc = "normalized"
    /\ pcode2' = normalize_user_input_code(pcode)
    /\ ppc' = "renormalized"
    /\ UNCHANGED <<FAULTS, sessionVars, inp, psel, pcode, pfound>>

\* line 379: an empty code is refused before any lookup
PReject ==
    /\ ppc = "renormalized"
    /\ ~Truthy(pcode)
    /\ ppc' = "rejected"
    /\ UNCHANGED <<FAULTS, sessionVars, inp, psel, pcode, pcode2, pfound>>

\* line 382
PFind(selected) ==
    /\ ppc = "renormalized"
    /\ Truthy(pcode)
    /\ psel' = selected
    /\ pfound' = find_fault(FAULTS, selected, pcode)
    /\ ppc' = "found"
    /\ UNCHANGED <<FAULTS, sessionVars, inp, pcode, pcode2>>

PipeNext ==
    \/ PNormalize
    \/ PRenormalize
    \/ PReject
    \/ \E selected \in EquipSet : PFind(selected)

PipeSpec == PipeInit /\ [][PipeNext]_vars

----------------------------------------------------------------------------
(* Claims about the pipeline, checked under PipeSpec *)

Normalized == ppc \in {"normalized", "renormalized", "rejected", "found"}
Renormalized == ppc \in {"renormalized", "rejected", "found"}

\* C1: normalization is idempotent: normalizing the result of
\* normalize_user_input_code again gives the same result, for every input
\* (None, the 'no code' result, normalizes to None).
C1_Idempotent == Renormalized => pcode2 = pcode

\* C2: each accepted spelling of fault number n ('F<n>', 'f<n>', '  f <n>'
\* and the bare digits '<n>') normalizes to the canonical key 'F<n>'.
C2_SpellingsCollapse ==
    Normalized =>
        \A n \in Numbers : inp \in Spellings(n) => pcode = <<"F">> \o n

\* the texts that differ from x only in letter case
RECURSIVE CaseVariants(_)
CaseVariants(x) ==
    IF x = <<>> THEN {<<>>}
    ELSE {<<c>> \o t : c \in {Head(x), UpperChar(Head(x)), LowerChar(Head(x))},
                       t \in CaseVariants(Tail(x))}

\* C3: lookup is case-insensitive: every input that differs from the one
\* searched only in letter case is refused when that one is refused, and
\* otherwise gives the same primary record and the same list of alternates.
C3_CaseInsensitive ==
    /\ ppc = "rejected" =>
         \A y \in CaseVariants(inp) : ~Truthy(normalize_user_input_code(y))
    /\ ppc = "found" =>
         \A y \in CaseVariants(inp) :
            LET code == normalize_user_input_code(y)
            IN  Truthy(code) /\ find_fault(FAULTS, psel, code) = pfound

\* a lower-case spelling found a primary record
C3_Witness ==
    /\ ppc = "found"
    /\ \E i \in 1..Len(inp) : inp[i] \in LowerSet
    /\ pfound.primary # <<>>

\* C5: find_fault returns as primary the record stored under (selected, code)
\* if there is one and nothing otherwise; the alternates are empty when a
\* primary exists, and otherwise are exactly one record per other equipment
\* whose table has the code, each with that code and another equipment.
C5_FindFault ==
    ppc = "found" =>
        LET holders == {e \in EquipSet \ {psel} : pcode \in DOMAIN FAULTS[e]}
            alts == pfound.alts
        IN  IF pcode \in DOMAIN FAULTS[psel]
            THEN /\ pfound.primary = <<FAULTS[psel][pcode]>>
                 /\ pfound.primary[1].equipment = psel
                 /\ pfound.primary[1].code = pcode
                 /\ alts = <<>>
            ELSE /\ pfound.primary = <<>>
                 /\ Len(alts) = Cardinality(holders)
                 /\ \A e \in holders : \E i \in 1..Len(alts) : alts[i] = FAULTS[e][pcode]
                 /\ \A i \in 1..Len(alts) :
                        /\ alts[i].code = pcode
                        /\ alts[i].equipment \in holders
                        /\ alts[i] = FAULTS[alts[i].equipment][pcode]

\* a miss in the selected equipment with the code in both other tables
C5_Witness == ppc = "found" /\ pfound.primary = <<>> /\ Len(pfound.alts) = 2

\* C7 as stated: inputs with the same prefix and fault number normalize to
\* the same key whatever the whitespace between them, none included.
C7_SeparatorSupplied ==
    (Normalized /\ inp \in PrefixedInputs) =>
        \A p \in Prefixes, g \in 0..MaxGap, n \in Numbers :
            inp = Prefixed(p, g, n) =>
                pcode = normalize_user_input_code(Prefixed(p, 1, n))

\* C7 amended: with at least one blank between prefix and fault number the
\* key is 'F<n>' whatever the number of blanks; with none, the input is
\* returned in upper case, unchanged otherwise, and is the key of no record.
C7_WhitespaceCollapsed ==
    (Normalized /\ inp \in PrefixedInputs) =>
        \A p \in Prefixes, g \in 0..MaxGap, n \in Numbers :
            inp = Prefixed(p, g, n) =>
                /\ g >= 1 => pcode = <<"F">> \o n
                /\ g = 0 => pcode = [i \in 1..Len(inp) |-> UpperChar(inp[i])]
                /\ (g = 0 /\ ppc = "found") =>
                       pfound.primary = <<>> /\ pfound.alts = <<>>

\* a prefix, the widest gap and a fault number found a record
C7_Witness ==
    /\ ppc = "found"
    /\ \E p \in Prefixes, n \in Numbers : inp = Prefixed(p, MaxGap, n)
    /\ pfound.primary # <<>>

----------------------------------------------------------------------------
(* Claims about the session, checked under Spec *)

FcKeys == {K_equipment, K_code_raw, K_result, K_show_modal, K_alt_matches, K_alt_prompt}

\* C4: a Search with an empty or whitespace-only code, after any earlier
\* searches and dialog actions, makes no lookup and afterwards shows the
\* 'Please enter a fault code' error and neither a fault record nor the dialog.
C4_EmptyShowsNothing ==
    (last.event = "Search" /\ last.kind = "empty") =>
        /\ shown.error
        /\ ~shown.looked
        /\ shown.result = <<>>
        /\ ~shown.modal

\* The suggestion step the specification describes: the records whose full
\* fault code contains the typed code, else those whose fault number is the
\* typed digits; at most MaxSuggestions of them.
MaxSuggestions == 10
Contains(s, sub) ==
    \E i \in 0..(Len(s) - Len(sub)) : SubSeq(s, i + 1, i + Len(sub)) = sub
DigitsOf(s) == SelectSeq(s, IsDigit)
SpecSuggestions(faults, code) ==
    LET pool == UNION {{faults[e][c] : c \in DOMAIN faults[e]} : e \in EquipSet}
        textual == {r \in pool : Contains([i \in 1..Len(r.fault_code_full) |->
                                             UpperChar(r.fault_code_full[i])], code)}
        numeric == {r \in pool : DigitsOf(code) # <<>>
                                 /\ DigitsOf(r.code) = DigitsOf(code)}
        found == IF textual # {} THEN textual ELSE numeric
    IN  IF Cardinality(found) <= MaxSuggestions THEN found
        ELSE CHOOSE t \in SUBSET found : Cardinality(t) = MaxSuggestions

C8_ResultOrigin ==
    /\ K_result \in DOMAIN ss =>
         \/ /\ hPrim # <<>>
            /\ ss[K_result] = hPrim[1].rec
            /\ ss[K_result].equipment = hPrim[1].selected
            /\ ss[K_result].code = hPrim[1].code
         \/ /\ hChosen = <<ss[K_result]>>
            /\ \E i \in 1..Len(hAlts) : hAlts[i] = ss[K_result]
    /\ (last.event = "Search" /\ last.kind \in {"alts", "nothing"}) =>
         K_result \notin DOMAIN ss

\* a record of another equipment is stored, taken with 'Yes, show it', after
\* an earlier search had stored a primary record
C8_Witness ==
    /\ K_result \in DOMAIN ss
    /\ hChosen = <<ss[K_result]>>
    /\ hPrim # <<>>
    /\ ss[K_result] # hPrim[1].rec

\* C9: fc_show_modal is true only if no fc_result is stored.
C9_DialogExcludesResult == ModalShown(ss) => K_result \notin DOMAIN ss

\* the dialog is open after an earlier search had stored a primary record
C9_Witness == ModalShown(ss) /\ hPrim # <<>> /\ last.event = "Search"

\* C10: while fc_show_modal is true, fc_alt_matches is present and not empty
\* and fc_alt_prompt is present, and every label of the radio names one of
\* the alternates; 'Yes, show it' stores one of the alternates; Cancel and
\* Clear remove every key that starts with fc_ and no other key.
C10_DialogHasChoices ==
    /\ [](ModalShown(ss) =>
            /\ K_alt_matches \in DOMAIN ss
            /\ K_alt_prompt \in DOMAIN ss
            /\ Len(ss[K_alt_matches]) >= 1
            /\ LabelSet(Options(ss)) # {})
    /\ [][ (pc = "idle" /\ pc' = "rerun") =>
             /\ last'.event = "Yes" =>
                  /\ K_alt_matches \in DOMAIN ss
                  /\ K_result \in DOMAIN ss'
                  /\ \E i \in 1..Len(ss[K_alt_matches]) :
                        ss'[K_result] = ss[K_alt_matches][i]
             /\ last'.event \in {"Cancel", "Clear"} =>
                  /\ DOMAIN ss' \cap FcKeys = {}
                  /\ (DOMAIN ss \ FcKeys) \subseteq DOMAIN ss' ]_vars

\* a dialog with two alternates was cancelled
C10_Witness == pc = "rerun" /\ last.event = "Cancel" /\ Len(hAlts) = 2

====
